---- MODULE Spec2Model ----
(***************************************************************************)
(* Model of the chat view of frontend/react-app/src/App.js: the App        *)
(* component's state (messages, userInput, isLoading, isListening), its    *)
(* handlers (handleSendMessage, handleToggleListening, the speech          *)
(* recognition callbacks, the effect cleanup) and the requests that        *)
(* handleSendMessage leaves suspended at its two awaits.                   *)
(*                                                                         *)
(* Texts are sequences of characters, so that String.prototype.trim is a   *)
(* computation on the text and not the identity.                           *)
(***************************************************************************)
EXTENDS Integers, Sequences, FiniteSets, TLC

\* ---------------------------------------------------------------- bounds
MaxLen == 2        \* longest text typed or transcribed
MaxTurns == 4      \* longest conversation of one page session
MaxAlerts == 1     \* notices shown in one page session

\* ----------------------------------------------------------------- texts
Whitespace == {" "}
Chars == Whitespace \cup {"a"}

RECURSIVE TextsUpTo(_)
TextsUpTo(n) ==
  IF n = 0 THEN {<<>>}
  ELSE LET shorter == TextsUpTo(n - 1)
       IN  shorter \cup {Append(s, c) : s \in {t \in shorter : Len(t) = n - 1}, c \in Chars}

Inputs == TextsUpTo(MaxLen)

RECURSIVE TrimStart(_)
TrimStart(s) ==
  IF s = <<>> THEN s
  ELSE IF Head(s) \in Whitespace THEN TrimStart(Tail(s)) ELSE s

RECURSIVE TrimEnd(_)
TrimEnd(s) ==
  IF s = <<>> THEN s
  ELSE IF s[Len(s)] \in Whitespace THEN TrimEnd(SubSeq(s, 1, Len(s) - 1)) ELSE s

\* the text is empty or made of whitespace only (what !userInput.trim() tests)
IsBlank(s) == \A i \in 1..Len(s) : s[i] \in Whitespace

\* a plausible slip: the text is used as typed
TrimIdentity(s) == s

\* userInput.trim()
Trim(s) == TrimEnd(TrimStart(s))

\* ----------------------------------------------------------------- turns
Turn(text, sender) == [text |-> text, sender |-> sender]

\* the fixed message of the catch block, one token of the text alphabet
FailureText == <<"Sorry, something went wrong. Please try again.">>

\* what botResponse.answer evaluates to when the body has no answer field
UndefinedText == <<"undefined">>

\* ------------------------------------------------------------- responses
Statuses == {200, 201, 404, 500}

\* response.ok
ResponseOk(status) == status >= 200 /\ status <= 299

Answers == {<<>>, <<"a", " ">>}

NoBody == [kind |-> "none", answer |-> <<>>]

\* what response.json() can meet: an object with an answer, an object without
\* one, the JSON value null, a body that is not JSON
Bodies == [kind : {"answer"}, answer : Answers]
          \cup {[kind |-> k, answer |-> <<>>] : k \in {"noAnswerField", "null", "unparsable"}}

\* the outcomes of the fetch promise: rejected, or resolved with a response
FetchOutcomes == {[rejected |-> TRUE, status |-> 0, body |-> NoBody]}
                 \cup [rejected : {FALSE}, status : Statuses, body : Bodies]

\* the error thrown inside the try block
HttpError(status) == [name |-> "Error", status |-> status]
TransportError == [name |-> "TypeError", status |-> 0]
JsonError(body) ==
  [name |-> IF body.kind = "unparsable" THEN "SyntaxError" ELSE "TypeError", status |-> 0]

\* a plausible slip: the catch block shows the error (as ChatComponent does)
CatchTextShowsError(err) ==
  IF err.name = "Error" THEN <<"HTTP error! Status: ", err.status>> ELSE FailureText

\* the text of errorMessage in the catch block
CatchText(err) == FailureText

\* a plausible slip: the answer is trimmed before it is shown
BotTextTrimmed(body) ==
  IF body.kind = "answer" THEN Trim(body.answer) ELSE UndefinedText

\* botResponse.answer for a body that parsed to an object
BotText(body) ==
  IF body.kind = "answer" THEN body.answer ELSE UndefinedText

\* response.json() followed by botResponse.answer throws
JsonThrows(body) == body.kind \in {"null", "unparsable"}

Event(name, arg) == [name |-> name, arg |-> arg]

\* ----------------------------------------------------------------- state
VARIABLES
  messages,        \* useState([]): the conversation
  userInput,       \* useState(''): the input text
  isLoading,       \* useState(false)
  isListening,     \* useState(false)
  mounted,         \* the component is mounted (its state is live)
  hasRecognition,  \* the module-level recognition instance is not null
  recState,        \* the recognition instance's session
  inflight,        \* calls of handleSendMessage suspended at an await
  calls,           \* fetch calls issued
  alerts,          \* alert() notices shown
  uncaught,        \* handlers an exception has escaped from
  event,           \* the handler that ran last, with the text it was handed
  question,        \* ChatComponent useState(''): the question typed
  answer,          \* ChatComponent useState(''): the answer shown
  chatIsLoading,   \* ChatComponent useState(false): its isLoading
  error,           \* ChatComponent useState(null): the error shown
  chatInflight     \* calls of ChatComponent.handleSubmit suspended at an await

\* the state of the App component and of what it talks to
appVars == <<messages, userInput, isLoading, isListening, mounted, hasRecognition,
             recState, inflight, calls, alerts, uncaught, event>>

\* the state of the ChatComponent component
chatVars == <<question, answer, chatIsLoading, error, chatInflight>>

vars == <<appVars, chatVars>>

\* the value null of the error state, one token of the text alphabet
NullError == <<"null">>

Init ==
  /\ messages = <<>>
  /\ userInput = <<>>
  /\ isLoading = FALSE
  /\ isListening = FALSE
  /\ mounted = TRUE
  /\ hasRecognition \in BOOLEAN
  /\ recState = "inactive"
  /\ inflight = {}
  /\ calls = 0
  /\ alerts = 0
  /\ uncaught = {}
  /\ event = Event("mount", <<>>)
  /\ question = <<>>
  /\ answer = <<>>
  /\ chatIsLoading = FALSE
  /\ error = NullError
  /\ chatInflight = {}

\* ---------------------------------------------------------------- render
\* a plausible slip: the send button is disabled on empty input only
SubmitEnabledIgnoresLoading == ~(Trim(userInput) = <<>>)

\* the send button: disabled={isLoading || !userInput.trim()}
SubmitEnabled == ~(isLoading \/ Trim(userInput) = <<>>)

\* a plausible slip: the text input is never disabled
InputEnabledAlways == TRUE

\* the text input: disabled={isLoading}
InputEnabled == ~isLoading

\* the mic button: rendered when recognition, disabled={isLoading}
MicEnabled == hasRecognition /\ ~isLoading

\* --------------------------------------------------------------- helpers
\* a state setter acts on a mounted component only
SetMessages(m) == IF mounted THEN messages' = m ELSE UNCHANGED messages
SetUserInput(s) == IF mounted THEN userInput' = s ELSE UNCHANGED userInput
SetIsLoading(b) == IF mounted THEN isLoading' = b ELSE UNCHANGED isLoading
SetIsListening(b) == IF mounted THEN isListening' = b ELSE UNCHANGED isListening

Request(id, query, turn) ==
  [id |-> id, query |-> query, turn |-> turn, pc |-> "fetch", body |-> NoBody]

\* -------------------------------------------------------- handleSendMessage
\* a plausible slip: setUserInput("") is missing
HandleSendMessageKeepsInput ==
  LET query == Trim(userInput)
  IN  /\ event' = Event("submit", <<>>)
      /\ IF query = <<>>
         THEN UNCHANGED <<messages, userInput, isLoading, inflight, calls>>
         ELSE /\ Len(messages) + Cardinality(inflight) + 2 <= MaxTurns
              /\ SetMessages(Append(messages, Turn(query, "user")))
              /\ UNCHANGED userInput
              /\ SetIsLoading(TRUE)
              /\ inflight' = inflight \cup {Request(calls + 1, query, Len(messages) + 1)}
              /\ calls' = calls + 1
      /\ UNCHANGED <<isListening, mounted, hasRecognition, recState, alerts, uncaught>>
      /\ UNCHANGED chatVars

\* the handler up to its first await
HandleSendMessage ==
  LET query == Trim(userInput)
  IN  /\ event' = Event("submit", <<>>)
      /\ IF query = <<>>
         THEN UNCHANGED <<messages, userInput, isLoading, inflight, calls>>
         ELSE /\ Len(messages) + Cardinality(inflight) + 2 <= MaxTurns
              /\ SetMessages(Append(messages, Turn(query, "user")))
              /\ SetUserInput(<<>>)
              /\ SetIsLoading(TRUE)
              /\ inflight' = inflight \cup {Request(calls + 1, query, Len(messages) + 1)}
              /\ calls' = calls + 1
      /\ UNCHANGED <<isListening, mounted, hasRecognition, recState, alerts, uncaught>>
      /\ UNCHANGED chatVars

\* the form is submitted through the enabled send button
Submit == mounted /\ SubmitEnabled /\ HandleSendMessage

\* a submit event dispatched on the form while the send button is disabled
DirectSubmit == mounted /\ ~SubmitEnabled /\ HandleSendMessage

\* a plausible slip: the catch block only logs the error
CatchFinallySilent(r, err) ==
  /\ UNCHANGED messages
  /\ SetIsLoading(FALSE)
  /\ inflight' = inflight \ {r}

\* a plausible slip: setMessages([errorMessage]) instead of the updater form
CatchFinallyReplaces(r, err) ==
  /\ SetMessages(<<Turn(CatchText(err), "bot")>>)
  /\ SetIsLoading(FALSE)
  /\ inflight' = inflight \ {r}

\* a plausible slip: the error message is tagged as a user turn
CatchFinallyUserSender(r, err) ==
  /\ SetMessages(Append(messages, Turn(CatchText(err), "user")))
  /\ SetIsLoading(FALSE)
  /\ inflight' = inflight \ {r}

\* catch and finally of handleSendMessage
CatchFinally(r, err) ==
  /\ SetMessages(Append(messages, Turn(CatchText(err), "bot")))
  /\ SetIsLoading(FALSE)
  /\ inflight' = inflight \ {r}

\* a plausible slip: a rejected fetch is issued again
FetchSettleRetries(r, o) ==
  /\ r \in inflight /\ r.pc = "fetch"
  /\ event' = Event(IF o.rejected THEN "fetchRejected" ELSE "fetchResponse", <<>>)
  /\ IF o.rejected
     THEN /\ calls' = calls + 1
          /\ UNCHANGED <<messages, isLoading, inflight>>
     ELSE /\ UNCHANGED calls
          /\ IF ~ResponseOk(o.status) THEN CatchFinally(r, HttpError(o.status))
             ELSE /\ inflight' = (inflight \ {r})
                                 \cup {[r EXCEPT !.pc = "json", !.body = o.body]}
                  /\ UNCHANGED <<messages, isLoading>>
  /\ UNCHANGED <<userInput, isListening, mounted, hasRecognition, recState, alerts, uncaught>>
  /\ UNCHANGED chatVars

\* the fetch promise settles: rejected, a response that is not ok, or a
\* response whose body is read next
FetchSettle(r, o) ==
  /\ r \in inflight /\ r.pc = "fetch"
  /\ event' = Event(IF o.rejected THEN "fetchRejected" ELSE "fetchResponse", <<>>)
  /\ IF o.rejected THEN CatchFinally(r, TransportError)
     ELSE IF ~ResponseOk(o.status) THEN CatchFinally(r, HttpError(o.status))
     ELSE /\ inflight' = (inflight \ {r})
                         \cup {[r EXCEPT !.pc = "json", !.body = o.body]}
          /\ UNCHANGED <<messages, isLoading>>
  /\ UNCHANGED <<userInput, isListening, mounted, hasRecognition, recState, calls,
                 alerts, uncaught>>
  /\ UNCHANGED chatVars

\* a plausible slip: setIsLoading(false) at the end of the try block only
JsonSettleNoFinally(r) ==
  /\ r \in inflight /\ r.pc = "json"
  /\ event' = Event("json", <<>>)
  /\ IF JsonThrows(r.body)
     THEN /\ SetMessages(Append(messages, Turn(CatchText(JsonError(r.body)), "bot")))
          /\ UNCHANGED isLoading
     ELSE /\ SetMessages(Append(messages, Turn(BotText(r.body), "bot")))
          /\ SetIsLoading(FALSE)
  /\ inflight' = inflight \ {r}
  /\ UNCHANGED <<userInput, isListening, mounted, hasRecognition, recState, calls,
                 alerts, uncaught>>
  /\ UNCHANGED chatVars

\* response.json() settles: the bot turn, or the catch block; then finally
JsonSettle(r) ==
  /\ r \in inflight /\ r.pc = "json"
  /\ event' = Event("json", <<>>)
  /\ IF JsonThrows(r.body) THEN CatchFinally(r, JsonError(r.body))
     ELSE /\ SetMessages(Append(messages, Turn(BotText(r.body), "bot")))
          /\ SetIsLoading(FALSE)
          /\ inflight' = inflight \ {r}
  /\ UNCHANGED <<userInput, isListening, mounted, hasRecognition, recState, calls,
                 alerts, uncaught>>
  /\ UNCHANGED chatVars

\* ------------------------------------------------------------------ input
\* onChange of the text input
Type(s) ==
  /\ mounted /\ InputEnabled
  /\ event' = Event("change", s)
  /\ SetUserInput(s)
  /\ UNCHANGED <<messages, isLoading, isListening, mounted, hasRecognition, recState,
                 inflight, calls, alerts, uncaught>>
  /\ UNCHANGED chatVars

\* ----------------------------------------------------------------- speech
\* recognition.start() is accepted: always on an instance with no session; on
\* one whose session has fired error but not yet end, engines differ
StartAccepted == recState \in {"inactive", "errored"}

\* recognition.start() throws InvalidStateError: the instance is started
StartThrows == recState # "inactive"

\* a plausible slip: no return after the alert, the null instance is used
HandleToggleListeningNoReturn ==
  /\ event' = Event("toggle", <<>>)
  /\ ~hasRecognition
  /\ alerts < MaxAlerts
  /\ alerts' = alerts + 1
  /\ uncaught' = uncaught \cup {"handleToggleListening"}
  /\ UNCHANGED <<isListening, recState>>
  /\ UNCHANGED <<messages, userInput, isLoading, mounted, hasRecognition, inflight, calls>>
  /\ UNCHANGED chatVars

\* handleToggleListening
HandleToggleListening ==
  /\ event' = Event("toggle", <<>>)
  /\ IF ~hasRecognition
     THEN /\ alerts < MaxAlerts
          /\ alerts' = alerts + 1
          /\ UNCHANGED <<isListening, recState, uncaught>>
     ELSE IF isListening
     THEN \* recognition.stop()
          /\ recState' = IF recState = "listening" THEN "stopping" ELSE recState
          /\ SetIsListening(FALSE)
          /\ UNCHANGED <<alerts, uncaught>>
     ELSE \* recognition.start(), then setIsListening(true) unless it threw
          \/ /\ StartAccepted
             /\ recState' = "listening"
             /\ SetIsListening(TRUE)
             /\ UNCHANGED <<alerts, uncaught>>
          \/ /\ StartThrows
             /\ uncaught' = uncaught \cup {"handleToggleListening"}
             /\ UNCHANGED <<isListening, recState, alerts>>
  /\ UNCHANGED <<messages, userInput, isLoading, mounted, hasRecognition, inflight, calls>>
  /\ UNCHANGED chatVars

\* the mic button is clicked
ToggleListening == mounted /\ MicEnabled /\ HandleToggleListening

\* handleToggleListening called while the mic button is absent or disabled
DirectToggle == mounted /\ ~MicEnabled /\ HandleToggleListening

\* a plausible slip: the transcript is added to the text already typed
SpeechResultAppends(t) ==
  /\ recState \in {"listening", "stopping"}
  /\ event' = Event("result", t)
  /\ recState' = "closing"
  /\ SetUserInput(userInput \o t)
  /\ SetIsListening(FALSE)
  /\ UNCHANGED <<messages, isLoading, mounted, hasRecognition, inflight, calls, alerts,
                 uncaught>>
  /\ UNCHANGED chatVars

\* recognition.onresult
SpeechResult(t) ==
  /\ recState \in {"listening", "stopping"}
  /\ event' = Event("result", t)
  /\ recState' = "closing"
  /\ SetUserInput(t)
  /\ SetIsListening(FALSE)
  /\ UNCHANGED <<messages, isLoading, mounted, hasRecognition, inflight, calls, alerts,
                 uncaught>>
  /\ UNCHANGED chatVars

\* recognition.onerror
SpeechError ==
  /\ recState \in {"listening", "stopping"}
  /\ event' = Event("error", <<>>)
  /\ recState' = "errored"
  /\ SetIsListening(FALSE)
  /\ UNCHANGED <<messages, userInput, isLoading, mounted, hasRecognition, inflight, calls,
                 alerts, uncaught>>
  /\ UNCHANGED chatVars

\* recognition.onend
SpeechEnd ==
  /\ recState # "inactive"
  /\ event' = Event("end", <<>>)
  /\ recState' = "inactive"
  /\ SetIsListening(FALSE)
  /\ UNCHANGED <<messages, userInput, isLoading, mounted, hasRecognition, inflight, calls,
                 alerts, uncaught>>
  /\ UNCHANGED chatVars

\* a plausible slip: the effect returns no cleanup
UnmountNoStop ==
  /\ mounted
  /\ event' = Event("unmount", <<>>)
  /\ mounted' = FALSE
  /\ UNCHANGED <<messages, userInput, isLoading, isListening, hasRecognition, recState,
                 inflight, calls, alerts, uncaught>>
  /\ UNCHANGED chatVars

\* the cleanup of the speech effect: recognition.stop()
Unmount ==
  /\ mounted
  /\ event' = Event("unmount", <<>>)
  /\ mounted' = FALSE
  /\ recState' = IF hasRecognition /\ recState = "listening" THEN "stopping" ELSE recState
  /\ UNCHANGED <<messages, userInput, isLoading, isListening, hasRecognition, inflight,
                 calls, alerts, uncaught>>
  /\ UNCHANGED chatVars

\* ----------------------------------------------------------- ChatComponent
\* a value that renders: not '', not undefined, not null
Truthy(text) == text \notin {<<>>, UndefinedText, NullError}

Details == {<<>>, <<"a", " ">>}

\* what response.json() can meet in ChatComponent: an object with an answer,
\* one with a detail, one with neither, the JSON value null, a body that is
\* not JSON (a plain-text or HTML error page, an empty body)
ChatBodies == [kind : {"answer"}, text : Answers]
              \cup [kind : {"detail"}, text : Details]
              \cup {[kind |-> k, text |-> <<>>] : k \in {"emptyObject", "null", "unparsable"}}

NoChatBody == [kind |-> "none", text |-> <<>>]

ChatFetchOutcomes == {[rejected |-> TRUE, status |-> 0, body |-> NoChatBody]}
                     \cup [rejected : {FALSE}, status : Statuses, body : ChatBodies]

\* err.message of a rejected fetch
FetchErrorMessage == <<"TypeError: Failed to fetch">>

\* err.message of what response.json() or the property access on null throws
JsonErrorMessage(body) ==
  IF body.kind = "unparsable" THEN <<"SyntaxError: Unexpected token">>
  ELSE <<"TypeError: Cannot read properties of null">>

\* `HTTP error! status: ${response.status}`
StatusMessage(status) == <<"HTTP error! status: ", status>>

\* errorData.detail
DetailOf(body) == IF body.kind = "detail" THEN body.text ELSE UndefinedText

\* new Error(errorData.detail || `HTTP error! status: ...`).message
HttpErrorMessage(status, body) ==
  IF Truthy(DetailOf(body)) THEN DetailOf(body) ELSE StatusMessage(status)

\* data.answer
AnswerOf(body) == IF body.kind = "answer" THEN body.text ELSE UndefinedText

\* response.json(), or the property read on its result, throws
ChatJsonThrows(body) == body.kind \in {"null", "unparsable"}

ChatRequest(q) == [question |-> q, pc |-> "fetch", status |-> 0, body |-> NoChatBody]

\* a plausible slip: setError(null) is missing
ChatHandleSubmitKeepsError ==
  /\ IF Trim(question) = <<>>
     THEN UNCHANGED <<answer, chatIsLoading, error, chatInflight>>
     ELSE /\ chatIsLoading' = TRUE
          /\ UNCHANGED error
          /\ answer' = <<>>
          /\ chatInflight' = chatInflight \cup {ChatRequest(question)}
  /\ UNCHANGED question
  /\ UNCHANGED appVars

\* ChatComponent.handleSubmit up to its first await
ChatHandleSubmit ==
  /\ IF Trim(question) = <<>>
     THEN UNCHANGED <<answer, chatIsLoading, error, chatInflight>>
     ELSE /\ chatIsLoading' = TRUE
          /\ error' = NullError
          /\ answer' = <<>>
          /\ chatInflight' = chatInflight \cup {ChatRequest(question)}
  /\ UNCHANGED question
  /\ UNCHANGED appVars

\* the form is submitted: <button type="submit" disabled={isLoading}>
ChatSubmit == ~chatIsLoading /\ ChatHandleSubmit

\* onChange of the input, disabled={isLoading}
ChatType(s) ==
  /\ ~chatIsLoading
  /\ question' = s
  /\ UNCHANGED <<answer, chatIsLoading, error, chatInflight>>
  /\ UNCHANGED appVars

\* catch and finally of ChatComponent.handleSubmit
ChatCatchFinally(r, message) ==
  /\ error' = message
  /\ chatIsLoading' = FALSE
  /\ chatInflight' = chatInflight \ {r}
  /\ UNCHANGED answer

\* the fetch promise settles: rejected, or a response whose body is read
\* next, in the !response.ok branch or after it
ChatFetchSettle(r, o) ==
  /\ r \in chatInflight /\ r.pc = "fetch"
  /\ IF o.rejected THEN ChatCatchFinally(r, FetchErrorMessage)
     ELSE /\ chatInflight' = (chatInflight \ {r})
              \cup {[r EXCEPT !.pc = IF ResponseOk(o.status) THEN "json" ELSE "errorJson",
                              !.status = o.status, !.body = o.body]}
          /\ UNCHANGED <<answer, chatIsLoading, error>>
  /\ UNCHANGED question
  /\ UNCHANGED appVars

\* await response.json() of the !response.ok branch settles
ChatErrorJsonSettle(r) ==
  /\ r \in chatInflight /\ r.pc = "errorJson"
  /\ IF ChatJsonThrows(r.body) THEN ChatCatchFinally(r, JsonErrorMessage(r.body))
     ELSE ChatCatchFinally(r, HttpErrorMessage(r.status, r.body))
  /\ UNCHANGED question
  /\ UNCHANGED appVars

\* await response.json() of the success path settles
ChatJsonSettle(r) ==
  /\ r \in chatInflight /\ r.pc = "json"
  /\ IF ChatJsonThrows(r.body) THEN ChatCatchFinally(r, JsonErrorMessage(r.body))
     ELSE /\ answer' = AnswerOf(r.body)
          /\ chatIsLoading' = FALSE
          /\ chatInflight' = chatInflight \ {r}
          /\ UNCHANGED error
  /\ UNCHANGED question
  /\ UNCHANGED appVars

\* ---------------------------------------------------------- specifications
\* the view driven through the controls its render enables
Next ==
  \/ \E s \in Inputs : Type(s)
  \/ Submit
  \/ \E r \in inflight : \E o \in FetchOutcomes : FetchSettle(r, o)
  \/ \E r \in inflight : JsonSettle(r)
  \/ ToggleListening
  \/ \E t \in Inputs : SpeechResult(t)
  \/ SpeechError
  \/ SpeechEnd
  \/ Unmount

Spec == Init /\ [][Next]_vars

\* the same, with the handlers also invoked behind disabled controls
NextDirect ==
  \/ Next
  \/ DirectSubmit
  \/ DirectToggle

SpecDirect == Init /\ [][NextDirect]_vars

\* the view with a recognition engine that ends every session it has begun:
\* the end event is always generated when a session ends
SpecFair == Spec /\ WF_vars(SpeechEnd)

\* the ChatComponent view driven through the controls its render enables
NextChat ==
  \/ \E s \in Inputs : ChatType(s)
  \/ ChatSubmit
  \/ \E r \in chatInflight : \E o \in ChatFetchOutcomes : ChatFetchSettle(r, o)
  \/ \E r \in chatInflight : ChatErrorJsonSettle(r)
  \/ \E r \in chatInflight : ChatJsonSettle(r)

SpecChat == Init /\ [][NextChat]_vars

TypeOK ==
  /\ userInput \in Inputs
  /\ isLoading \in BOOLEAN /\ isListening \in BOOLEAN /\ mounted \in BOOLEAN
  /\ hasRecognition \in BOOLEAN
  /\ recState \in {"inactive", "listening", "stopping", "closing", "errored"}
  /\ \A i \in 1..Len(messages) : messages[i].sender \in {"user", "bot"}
  /\ Len(messages) <= MaxTurns
  /\ \A r \in inflight : r.pc \in {"fetch", "json"} /\ r.id \in 1..calls
  /\ calls \in 0..MaxTurns /\ alerts \in 0..MaxAlerts
  /\ uncaught \subseteq {"handleSendMessage", "handleToggleListening"}
  /\ question \in Inputs /\ chatIsLoading \in BOOLEAN
  /\ \A r \in chatInflight : r.pc \in {"fetch", "errorJson", "json"}

\* ------------------------------------------------------------ vocabulary
\* request r leaves handleSendMessage in this step (its finally block ran)
Settled(r) == r \in inflight /\ \A q \in inflight' : q.id # r.id

\* this step adds exactly turn t at the end of the conversation
Appends(t) == messages' = Append(messages, t)

LastTurn == messages[Len(messages)]

RECURSIVE UserTurns(_)
UserTurns(m) ==
  IF m = <<>> THEN 0
  ELSE (IF Head(m).sender = "user" THEN 1 ELSE 0) + UserTurns(Tail(m))

\* ---------------------------------------------------------------- claims
\* C1: in the mounted chat view a submission of a text whose trimmed form is
\* not empty appends exactly the user turn in the submit step; the settlement
\* of its request appends exactly one bot turn, directly after that user turn
\* (so before any turn of a later submission); no other step adds a turn.
C1_SubmissionCycle ==
  [][ /\ (event'.name = "submit" /\ Trim(userInput) # <<>>)
           => Appends(Turn(Trim(userInput), "user"))
      /\ \A r \in inflight :
           (Settled(r) /\ mounted)
             => /\ \E text \in {FailureText, UndefinedText} \cup Answers :
                     Appends(Turn(text, "bot"))
                /\ Len(messages) = r.turn
                /\ messages[r.turn] = Turn(r.query, "user")
      /\ (messages' # messages)
           => \/ event'.name = "submit"
              \/ \E r \in inflight : Settled(r)
    ]_vars

\* C1 witness: two complete cycles, the first ended by a failure and the
\* second by an answer
C1_Witness ==
  /\ mounted /\ Len(messages) = 4 /\ inflight = {}
  /\ messages[1].sender = "user" /\ messages[2] = Turn(FailureText, "bot")
  /\ messages[3].sender = "user" /\ messages[4] = Turn(<<"a", " ">>, "bot")

\* C2: driven through enabled controls only, at most one request is
\* outstanding in every reachable state.
C2_AtMostOneOutstanding == Cardinality(inflight) <= 1

\* C2 witness: a request is outstanding while the input holds a text that
\* could be submitted (a transcript delivered during loading)
C2_Witness ==
  /\ mounted /\ isLoading /\ Cardinality(inflight) = 1
  /\ Trim(userInput) # <<>>
  /\ Len(messages) + Cardinality(inflight) + 2 <= MaxTurns

\* C3: handleSendMessage run while isLoading is true appends no turn, issues
\* no call and leaves userInput and isLoading unchanged.
C3_SubmitWhileLoadingIsNoOp ==
  [][ (event'.name = "submit" /\ isLoading)
        => UNCHANGED <<messages, inflight, calls, userInput, isLoading>> ]_vars

\* C4: handleSendMessage run on an empty or whitespace-only input appends no
\* turn and issues no call; messages, userInput, isLoading and isListening
\* are unchanged.
C4_BlankSubmitIsNoOp ==
  [][ (event'.name = "submit" /\ IsBlank(userInput))
        => UNCHANGED <<messages, userInput, isLoading, isListening, inflight, calls>>
    ]_vars

\* C4 witness: the handler has run on a whitespace-only input, during a
\* request and outside one
C4_Witness ==
  /\ event.name = "submit" /\ userInput # <<>> /\ IsBlank(userInput)
  /\ Len(messages) = 3 /\ Cardinality(inflight) = 1 /\ calls = 2

\* C5: when the body of a 2xx response has been read and carries an answer,
\* the turn appended is the bot turn whose text is that answer, unchanged.
C5_AnswerVerbatim ==
  [][ \A r \in inflight :
        (Settled(r) /\ mounted /\ r.pc = "json" /\ r.body.kind = "answer")
          => Appends(Turn(r.body.answer, "bot")) ]_vars

\* C5 witness: an answer with trailing whitespace has been shown as it came
C5_Witness ==
  /\ mounted /\ event.name = "json" /\ inflight = {} /\ Len(messages) = 2
  /\ LastTurn = Turn(<<"a", " ">>, "bot")

\* C6: a request that ends at the fetch (rejected, or a response that is not
\* ok) appends the bot turn with the fixed failure text, whatever the status
\* or error, and no exception leaves handleSendMessage.
C6_GenericFailure ==
  [][ /\ \A r \in inflight :
           (Settled(r) /\ mounted /\ r.pc = "fetch")
             => /\ event'.name \in {"fetchRejected", "fetchResponse"}
                /\ Appends(Turn(FailureText, "bot"))
      /\ "handleSendMessage" \notin uncaught'
    ]_vars

\* C6 witness: two cycles have ended with the failure text, the second one
\* at the fetch, through a response that was not ok
C6_Witness ==
  /\ mounted /\ inflight = {} /\ Len(messages) = 4 /\ event.name = "fetchResponse"
  /\ messages[2] = Turn(FailureText, "bot") /\ messages[4] = Turn(FailureText, "bot")

\* C7: isLoading goes from true to false only in a step that settles a
\* request, every settlement in the mounted view sets it to false, and while
\* a request is outstanding in the mounted view isLoading is true.
C7_LoadingUntilSettled ==
  /\ []((mounted /\ inflight # {}) => isLoading)
  /\ [][ /\ (isLoading /\ ~isLoading') => \E r \in inflight : Settled(r)
         /\ \A r \in inflight : (Settled(r) /\ mounted) => ~isLoading'
       ]_vars

\* C7 witness: a body that could not be parsed has ended the cycle in idle
C7_Witness ==
  /\ mounted /\ event.name = "json" /\ inflight = {} /\ ~isLoading
  /\ Len(messages) = 2 /\ LastTurn = Turn(FailureText, "bot")

\* C8: every step leaves the conversation as it was or adds one turn at its
\* end.
C8_AppendOnly ==
  [][ \/ messages' = messages
      \/ /\ Len(messages') = Len(messages) + 1
         /\ SubSeq(messages', 1, Len(messages)) = messages
    ]_vars

\* C8 witness: a conversation of four turns, the last added by a failure
C8_Witness ==
  /\ Len(messages) = 4 /\ LastTurn = Turn(FailureText, "bot")
  /\ messages[2].sender = "bot" /\ messages[2].text # FailureText

\* C9: the calls issued are as many as the user turns; a call is issued only
\* by a submit step, one at a time, for the trimmed input, which is also the
\* text of the user turn appended in that step; no settlement issues a call.
C9_OneCallPerSubmission ==
  /\ [](calls = UserTurns(messages))
  /\ [][ /\ (calls' # calls \/ \E q \in inflight' : \A r \in inflight : r.id # q.id)
           => /\ event'.name = "submit"
              /\ calls' = calls + 1
              /\ Appends(Turn(Trim(userInput), "user"))
              /\ \E q \in inflight' :
                   /\ inflight' = inflight \cup {q}
                   /\ q.id = calls' /\ q.pc = "fetch" /\ q.query = Trim(userInput)
         /\ (event'.name = "submit" /\ Trim(userInput) # <<>>) => calls' = calls + 1
       ]_vars

\* C9 witness: a second call was issued after the first one failed, by a
\* second submit
C9_Witness ==
  /\ calls = 2 /\ Len(messages) = 3 /\ event.name = "submit"
  /\ messages[2] = Turn(FailureText, "bot")
  /\ \E r \in inflight : r.id = 2 /\ r.query = messages[3].text

\* C10: onresult in the mounted view sets userInput to the transcript and
\* isListening to false, and leaves messages and isLoading unchanged.
C10_TranscriptReplacesInput ==
  [][ (event'.name = "result" /\ mounted)
        => /\ userInput' = event'.arg
           /\ ~isListening'
           /\ UNCHANGED <<messages, isLoading>> ]_vars

\* C10 witness: a transcript has been delivered and is the input text
C10_Witness ==
  /\ mounted /\ event = Event("result", <<"a", " ">>)
  /\ userInput = <<"a", " ">> /\ ~isListening

\* C11: with no recognition instance, handleToggleListening shows one notice
\* and does nothing else: messages, userInput, isLoading, isListening are
\* unchanged, no start or stop reaches an instance and nothing is thrown.
C11_AbsentCapabilityNotice ==
  [][ (event'.name = "toggle" /\ ~hasRecognition)
        => /\ alerts' = alerts + 1
           /\ UNCHANGED <<messages, userInput, isLoading, isListening, recState,
                          uncaught, inflight, calls>> ]_vars

\* C11 witness: the notice has been shown in a view without the capability,
\* in the middle of a conversation
C11_Witness ==
  /\ ~hasRecognition /\ event.name = "toggle" /\ alerts = 1
  /\ uncaught = {} /\ recState = "inactive" /\ ~isListening
  /\ Len(messages) = 3 /\ isLoading

\* C12: in the mounted view the conversation alternates user, bot, user, ...
\* from a user turn on; idle, its length is even; loading, its length is odd
\* and its last turn is the user turn of the outstanding request.
C12_Alternation ==
  /\ \A i \in 1..Len(messages) :
       messages[i].sender = (IF i % 2 = 1 THEN "user" ELSE "bot")
  /\ (mounted /\ ~isLoading) => (Len(messages) % 2 = 0 /\ inflight = {})
  /\ (mounted /\ isLoading)
       => /\ Len(messages) % 2 = 1
          /\ \E r \in inflight :
               /\ inflight = {r}
               /\ r.turn = Len(messages)
               /\ LastTurn = Turn(r.query, "user")

\* C12 witness: a second request is outstanding after a complete first cycle
C12_Witness ==
  /\ mounted /\ isLoading /\ Len(messages) = 3
  /\ messages[2].sender = "bot" /\ LastTurn.sender = "user"
  /\ \E r \in inflight : r.pc = "json" /\ r.turn = 3

\* C13: a submit of a text that is not blank, while not loading, appends the
\* user turn with the trimmed text, empties userInput and sets isLoading, all
\* in that step, and leaves isListening unchanged.
C13_AcceptedSubmit ==
  [][ (event'.name = "submit" /\ ~IsBlank(userInput) /\ ~isLoading)
        => /\ Appends(Turn(Trim(userInput), "user"))
           /\ userInput' = <<>>
           /\ isLoading'
           /\ UNCHANGED isListening ]_vars

\* C13 witness: a submit was accepted during a listening session, which is
\* still listening
C13_Witness ==
  /\ mounted /\ event.name = "submit" /\ isLoading /\ userInput = <<>>
  /\ isListening /\ recState = "listening"
  /\ Len(messages) = 1 /\ LastTurn = Turn(<<"a">>, "user")

\* C14: with the capability present, handleToggleListening starts a session
\* and sets isListening when the flag is false, stops the session and clears
\* the flag when it is true; onerror and onend clear the flag.
C14_ToggleFollowsFlag ==
  [][ /\ (event'.name = "toggle" /\ hasRecognition /\ mounted)
           => IF isListening
              THEN recState' \notin {"listening"} /\ ~isListening'
              ELSE recState' = "listening" /\ isListening'
      /\ (event'.name \in {"error", "end"} /\ mounted) => ~isListening'
    ]_vars

\* C15: the unmount issues stop to the recognition instance, so a session
\* that is listening at teardown is stopped by it, no session listens in an
\* unmounted view, and every session of the instance has ended some time
\* after teardown.
C15_TeardownStopsSession ==
  /\ [][ (event'.name = "unmount" /\ recState = "listening")
           => recState' = "stopping" ]_vars
  /\ [](~mounted => recState # "listening")
  /\ (~mounted ~> recState = "inactive")

\* C15 witness: the view was torn down while listening; the session has been
\* told to stop and has not ended yet
C15_Witness ==
  /\ ~mounted /\ event.name = "unmount" /\ isListening /\ recState = "stopping"

\* C17: a false isListening flag means the session before has ended, so that
\* start is never called on an instance with an active session.
C17_FlagFalseMeansEnded ==
  (mounted /\ hasRecognition /\ ~isListening)
    => (recState = "inactive" /\ "handleToggleListening" \notin uncaught)

\* C18 as stated: while isLoading is true in the mounted view the input text
\* is empty.
C18_InputEmptyWhileLoading == (mounted /\ isLoading) => userInput = <<>>

\* C18 amended: while isLoading is true in the mounted view, the only step
\* that changes userInput is onresult, which sets it to the transcript.
C18_OnlyTranscriptWhileLoading ==
  [][ (mounted /\ isLoading /\ userInput' # userInput)
        => (event'.name = "result" /\ userInput' = event'.arg) ]_vars

\* C18 witness: a transcript of a session begun before the submit has become
\* the input text during the request
C18_Witness ==
  /\ mounted /\ isLoading /\ inflight # {}
  /\ event = Event("result", <<" ", "a">>) /\ userInput = <<" ", "a">>

\* C16: in ChatComponent a non-2xx response with a detail string makes the
\* error shown exactly that detail, one without a detail makes it the
\* message with the HTTP status; the answer stays empty and isLoading
\* returns to false.
C16_DetailOrStatus ==
  [][ \A r \in chatInflight :
        (r.pc = "errorJson" /\ r \notin chatInflight')
          => /\ error' = (IF r.body.kind = "detail" THEN r.body.text
                          ELSE StatusMessage(r.status))
             /\ ~Truthy(answer')
             /\ ~chatIsLoading' ]_vars

\* C19: in ChatComponent the answer and the error are never both shown; an
\* accepted submit clears both, both stay cleared while isLoading is true,
\* and a settlement assigns one of them: the answer of the body on success,
\* the message of the error on every failure.
C19_AnswerXorError ==
  /\ [](~(Truthy(answer) /\ Truthy(error)))
  /\ [](chatIsLoading => (answer = <<>> /\ error = NullError /\ chatInflight # {}))
  /\ [][ /\ (~chatIsLoading /\ chatIsLoading') => (answer' = <<>> /\ error' = NullError)
         /\ \A r \in chatInflight :
              (r \notin chatInflight' /\ chatInflight' = {})
                => /\ ~chatIsLoading'
                   /\ IF r.pc = "json" /\ ~ChatJsonThrows(r.body)
                      THEN answer' = AnswerOf(r.body) /\ error' = NullError
                      ELSE Truthy(error') /\ answer' = <<>>
       ]_vars

\* C19 witness: a failure is shown after a submit, with no answer beside it
C19_Witness ==
  /\ ~chatIsLoading /\ chatInflight = {}
  /\ error = StatusMessage(404) /\ answer = <<>>
  /\ question = <<"a", " ">>

====
